---- MODULE Spec2Model ----
(***************************************************************************)
(* Model of app.js: the bootstrap pipeline of the Xray VLESS proxy script. *)
(* One action is one turn of the Node.js event loop: a callback together   *)
(* with every microtask (promise continuation) it triggers.                *)
(*                                                                         *)
(* Text is modelled as a sequence of one-character strings.                *)
(***************************************************************************)
EXTENDS Integers, Sequences, FiniteSets, TLC

VARIABLES
    env,        \* process.env (SERVER_IP, SERVER_PORT, UUID, PORT, WSPATH) and os.arch()
    pc,         \* the suspension point main() is parked at
    host,       \* "alive" | "exited"
    exitCode,   \* exit status of the host process (-1 while alive)
    exitCause,  \* "none" | "env" | "signal" | "uncaught" | "drained"
    handlers,   \* number of SIGINT/SIGTERM listener pairs registered
    proxy,      \* the XrayProxy instance (NoProxy before construction)
    fsys,       \* files on disk
    attempt,    \* getISP: loop variable
    source,     \* getISP: index of the source of the request in flight
    requests,   \* getISP: https.get calls issued
    backoffs,   \* getISP: backoff timers started
    failed,     \* getISP: attempts that failed (error, timeout or parser throw)
    lastBody,   \* getISP: body of the last completed response
    ispInfo,    \* result of getISP (NoLabel until it returns)
    redirects,  \* _downloadFile: redirects followed (counted up to MaxRedirects)
    url,        \* _downloadFile: URL of the request in flight ("none" if none)
    config,     \* content of config.json as written by generateConfig
    entries,    \* yauzl: entries of the archive not yet emitted
    provFailure,\* the provisioning step that failed ("none" if none)
    daeResult,  \* outcome of downloadAndExtract
    cleanups,   \* number of times cleanup() ran
    unlinkErrors, \* files whose unlinkSync threw inside cleanup()
    trace       \* observable events, in order

vars == <<env, pc, host, exitCode, exitCause, handlers, proxy, fsys, attempt,
          source, requests, backoffs, failed, lastBody, ispInfo, redirects,
          url, config, entries, provFailure, daeResult, cleanups, unlinkErrors, trace>>

-----------------------------------------------------------------------------
(* Bounds of the model *)

\* longest redirect chain the modelled server produces
MaxRedirects == 2
\* largest number of entries in a modelled archive
MaxEntries == 2

-----------------------------------------------------------------------------
(* Text helpers *)

UNDEF == <<"#undefined">>
NoLabel == <<"#none">>
NoBody == <<"#nobody">>

sUndefined == <<"u","n","d","e","f","i","n","e","d">>
sUnknown == <<"U","n","k","n","o","w","n">>
sUN == <<"U","N">>
sCF == <<"C","F">>
sLoc == <<"l","o","c">>
sAsOrg == <<"a","s","_","o","r","g","a","n","i","z","a","t","i","o","n">>

\* `${v}` in a template literal
Str(v) == IF v = UNDEF THEN sUndefined ELSE v

\* s.replace(/ /g, '_')
ReplaceSpaces(s) == [i \in 1..Len(s) |-> IF s[i] = " " THEN "_" ELSE s[i]]

IndexOf(s, c) ==
    IF \E i \in 1..Len(s) : s[i] = c
    THEN CHOOSE i \in 1..Len(s) : s[i] = c /\ \A j \in 1..(i-1) : s[j] # c
    ELSE 0

RECURSIVE Split(_, _)
\* s.split(c)
Split(s, c) ==
    LET i == IndexOf(s, c) IN
    IF i = 0 THEN <<s>>
    ELSE <<SubSeq(s, 1, i-1)>> \o Split(SubSeq(s, i+1, Len(s)), c)

IsSpace(ch) == ch \in {" ", "\r", "\t"}

RECURSIVE TrimLeft(_)
TrimLeft(s) == IF s # <<>> /\ IsSpace(Head(s)) THEN TrimLeft(Tail(s)) ELSE s

RECURSIVE TrimRight(_)
TrimRight(s) ==
    IF s # <<>> /\ IsSpace(s[Len(s)]) THEN TrimRight(SubSeq(s, 1, Len(s)-1)) ELSE s

\* s.trim()
Trim(s) == TrimRight(TrimLeft(s))

\* x || d
OrElse(x, d) == IF x = UNDEF \/ x = <<>> THEN d ELSE x

-----------------------------------------------------------------------------
(* getISP: the two sources and their parsers (app.js 68-87) *)

\* A response body of api.ip.sb: not JSON, the JSON value null, or a JSON
\* object whose country_code / organization may be missing (UNDEF).
IpSbBodies ==
    { [json |-> "invalid", cc |-> UNDEF, org |-> UNDEF],
      [json |-> "null",    cc |-> UNDEF, org |-> UNDEF],
      [json |-> "object",  cc |-> <<"U","S">>, org |-> <<"A"," ","B">>],
      [json |-> "object",  cc |-> UNDEF, org |-> UNDEF] }

\* A response body of the Cloudflare trace: flat text
TraceBodies ==
    { <<"l","o","c","=","D","E","\n","h","=","x">>,
      sAsOrg \o <<"=","Z"," ","Y"," ","\n","l","o","c","="," ">>,
      <<"<","h","t","m","l",">">>,
      <<>> }

\* parse of apiSources[0]: JSON.parse(data) throws on a non-JSON body, and
\* reading info.country_code throws when info is null.
ParseIpSb(data) ==
    IF data.json # "object"
    THEN [ok |-> FALSE, label |-> NoLabel]
    ELSE [ok |-> TRUE,
          label |-> ReplaceSpaces(Str(data.cc) \o <<"-">> \o Str(data.org))]

\* kv[key] after the forEach over the lines: the last line that sets it wins
KvGet(lines, key) ==
    LET sets(i) == LET p == Split(lines[i], "=") IN
                   /\ Len(p) >= 2
                   /\ p[1] # <<>>
                   /\ p[2] # <<>>
                   /\ Trim(p[1]) = key
        hits == {i \in 1..Len(lines) : sets(i)}
    IN IF hits = {} THEN UNDEF
       ELSE LET last == CHOOSE i \in hits : \A j \in hits : j <= i
            IN Trim(Split(lines[last], "=")[2])

\* parse of apiSources[1]: never throws
ParseTrace(data) ==
    LET lines == Split(data, "\n") IN
    [ok |-> TRUE,
     label |-> ReplaceSpaces(OrElse(KvGet(lines, sLoc), sUN) \o <<"-">>
                             \o OrElse(KvGet(lines, sAsOrg), sCF))]

\* number of entries of apiSources
SourceCount == 2

\* the bodies source i (0-based) can answer with
BodiesOf(i) == IF i = 0 THEN IpSbBodies ELSE TraceBodies

\* apiSources[i].parse(data)
Parse(i, data) == IF i = 0 THEN ParseIpSb(data) ELSE ParseTrace(data)

SourceIndex_swapped(n) == n % SourceCount
\* the source used by attempt n (1-based)
SourceIndex(n) == (n - 1) % SourceCount

\* getISP(3) in main
Retries == 3


-----------------------------------------------------------------------------
(* Environment, disk and instance *)

UNSET == "#unset"

\* JavaScript truthiness of an environment value
Truthy(v) == v # UNSET /\ v # ""

IsPterodactyl_ipOnly(e) == Truthy(e.SERVER_IP)
\* detectEnvironment: process.env.SERVER_IP && process.env.SERVER_PORT
IsPterodactyl(e) == Truthy(e.SERVER_IP) /\ Truthy(e.SERVER_PORT)

\* the run without any optional override, on x64
BaseEnvs == [SERVER_IP : {UNSET, "", "1.2.3.4"},
             SERVER_PORT : {UNSET, "", "25565"},
             UUID : {"", "uuid-fixed"},
             PORT : {<<>>},
             WSPATH : {<<>>},
             arch : {"x64"}]

\* one override (PORT, WSPATH) or another architecture at a time
VariantEnvs ==
    LET ok == [SERVER_IP : {"1.2.3.4"}, SERVER_PORT : {"25565"},
               UUID : {"", "uuid-fixed"}]
        envOf(b, port, ws, a) ==
            [SERVER_IP |-> b.SERVER_IP, SERVER_PORT |-> b.SERVER_PORT,
             UUID |-> b.UUID, PORT |-> port, WSPATH |-> ws, arch |-> a]
    IN {envOf(b, <<"8","0","8","0">>, <<>>, "x64") : b \in ok}
       \cup {envOf(b, <<"x">>, <<>>, "x64") : b \in ok}
       \cup {envOf(b, <<>>, <<"w","s">>, "x64") : b \in ok}
       \cup {envOf(b, <<>>, <<"/","w","s">>, "x64") : b \in ok}
       \cup {envOf(b, <<>>, <<>>, "arm64") : b \in ok}
       \cup {envOf(b, <<>>, <<>>, "arm") : b \in ok}

Envs == BaseEnvs \cup VariantEnvs

\* values crypto.randomUUID() can return
RandomUUIDs == {"uuid-r1", "uuid-r2"}

\* the files cleanup() removes, in the order of its list
CleanupFiles == <<"xray.zip", "config.json", "vless_xray_links.txt">>

EmptyDisk == [zip |-> "absent", config |-> FALSE, links |-> FALSE,
              xray |-> "absent", xrayExec |-> FALSE, dir |-> FALSE]

\* what an earlier run of the script can have left in the working directory
PriorDisks ==
    { EmptyDisk,
      [EmptyDisk EXCEPT !.config = TRUE, !.links = TRUE, !.xray = "complete",
                        !.xrayExec = TRUE, !.dir = TRUE],
      [EmptyDisk EXCEPT !.zip = "complete"] }

\* a number as parseInt returns it: NaN, or an integer
NaN == [nan |-> TRUE, val |-> 0]
Num(n) == [nan |-> FALSE, val |-> n]

\* the characters of an environment value held as a string
TextOf(v) ==
    CASE v = UNSET -> UNDEF
      [] v = "" -> <<>>
      [] v = "25565" -> <<"2","5","5","6","5">>
      [] OTHER -> <<"?">>

Digits == <<"0","1","2","3","4","5","6","7","8","9">>
IsDigit(c) == \E d \in 1..Len(Digits) : Digits[d] = c
DigitVal(c) == (CHOOSE d \in 1..Len(Digits) : Digits[d] = c) - 1

RECURSIVE DigitsPrefix(_)
DigitsPrefix(s) ==
    IF s # <<>> /\ IsDigit(Head(s)) THEN <<Head(s)>> \o DigitsPrefix(Tail(s))
    ELSE <<>>

RECURSIVE Decimal(_)
Decimal(ds) ==
    IF ds = <<>> THEN 0
    ELSE Decimal(SubSeq(ds, 1, Len(ds)-1)) * 10 + DigitVal(ds[Len(ds)])

\* parseInt(s): leading blanks and a sign are skipped, the digits that follow
\* are read, NaN when there is none (an unset variable reads "undefined")
ParseInt(s) ==
    LET t == TrimLeft(Str(s))
        neg == t # <<>> /\ Head(t) = "-"
        u == IF t # <<>> /\ Head(t) \in {"+", "-"} THEN Tail(t) ELSE t
        ds == DigitsPrefix(u)
    IN IF ds = <<>> THEN NaN
       ELSE Num(IF neg THEN 0 - Decimal(ds) ELSE Decimal(ds))

FinalPort_serverPort(e) == ParseInt(TextOf(e.SERVER_PORT))
\* main: PORT === "" ? env.directPort : parseInt(PORT)
FinalPort(e) ==
    IF e.PORT = <<>> THEN ParseInt(TextOf(e.SERVER_PORT)) ELSE ParseInt(e.PORT)

\* crypto.createHash('md5').update(u).digest('hex') of the modelled ids
Md5Hex(u) ==
    CASE u = "uuid-fixed" -> <<"f","1","d","8","4","3","5","0","7","c","5","5","e","7","e","4","9","4","0","8","b","2","7","1","3","0","5","e","d","8","5","3">>
      [] u = "uuid-r1" -> <<"5","d","c","1","4","0","d","6","4","e","4","c","4","1","8","a","7","5","3","7","6","f","5","f","e","8","0","5","d","d","a","5">>
      [] u = "uuid-r2" -> <<"3","c","a","7","e","5","1","4","f","f","8","7","4","0","d","1","7","c","e","c","5","d","6","6","0","0","4","5","9","4","a","d">>
      [] OTHER -> <<>>

AccessPath_noSlash(ws, u) ==
    IF ws # <<>> THEN ws ELSE SubSeq(Md5Hex(u), 1, 8)
\* the constructor's this.path
AccessPath(ws, u) ==
    IF ws # <<>>
    THEN (IF Head(ws) = "/" THEN ws ELSE <<"/">> \o ws)
    ELSE <<"/">> \o SubSeq(Md5Hex(u), 1, 8)

\* process.env.DOMAIN || "example.com"
DomainName == "example.com"

NoProxy == [created |-> FALSE, uuid |-> "", path |-> <<>>, port |-> NaN,
            domain |-> "", process |-> "null", signalled |-> FALSE]

\* new XrayProxy(DOMAIN, UUID, finalPort, NAME) with u the id in use
NewProxy(e, u) ==
    [created |-> TRUE, uuid |-> u, path |-> AccessPath(e.WSPATH, u),
     port |-> FinalPort(e), domain |-> DomainName, process |-> "null",
     signalled |-> FALSE]

NoConfig == [inbounds |-> <<>>, outbounds |-> <<>>]

\* JSON.stringify of a number: NaN is written as null
JsonNumber(n) == [null |-> n.nan, val |-> n.val]

\* the object generateConfig serializes
ConfigOf(p) ==
    [inbounds |-> << [port |-> JsonNumber(p.port), listen |-> "0.0.0.0", protocol |-> "vless",
                      clients |-> << [id |-> p.uuid, level |-> 0] >>,
                      decryption |-> "none", network |-> "ws", security |-> "none",
                      wsPath |-> p.path, wsHost |-> p.domain] >>,
     outbounds |-> << [protocol |-> "freedom"] >>]

\* the file names of the two release assets
AssetArm64 == "Xray-linux-arm64-v8a.zip"
Asset64 == "Xray-linux-64.zip"

\* getXrayDownloadUrl
GetXrayDownloadUrl(a) == IF a = "arm64" THEN AssetArm64 ELSE Asset64

\* the Location headers the download server answers with
RedirectTargets == {"cdn-a", "cdn-b"}

RegisterHandlers_twice(h) == h + 2
\* setupSignalHandlers: one listener per signal
RegisterHandlers(h) == h + 1

Exists(f, name) ==
    CASE name = "xray.zip" -> f.zip # "absent"
      [] name = "config.json" -> f.config
      [] name = "vless_xray_links.txt" -> f.links
      [] OTHER -> FALSE

Unlink(f, name) ==
    CASE name = "xray.zip" -> [f EXCEPT !.zip = "absent"]
      [] name = "config.json" -> [f EXCEPT !.config = FALSE]
      [] name = "vless_xray_links.txt" -> [f EXCEPT !.links = FALSE]
      [] OTHER -> f

RECURSIVE RemoveAll_stopAtError(_, _, _)
RemoveAll_stopAtError(f, names, fails) ==
    IF names = <<>> THEN f
    ELSE LET n == Head(names) IN
         IF Exists(f, n) /\ n \in fails THEN f
         ELSE RemoveAll_stopAtError(IF Exists(f, n) THEN Unlink(f, n) ELSE f,
                                    Tail(names), fails)

RECURSIVE RemoveAll(_, _, _)
\* the forEach of cleanup(): unlinkSync of each existing file, an exception of
\* unlinkSync (the files in fails) being swallowed
RemoveAll(f, names, fails) ==
    IF names = <<>> THEN f
    ELSE LET n == Head(names)
             g == IF Exists(f, n) /\ n \notin fails THEN Unlink(f, n) ELSE f
         IN RemoveAll(g, Tail(names), fails)

CleanupEvents_rmFirst(p) ==
    [i \in 1..Len(CleanupFiles) |-> "rm:" \o CleanupFiles[i]]
    \o (IF p.process # "null" THEN <<"kill">> ELSE <<>>)
\* the observable steps of cleanup(), in order
CleanupEvents(p) ==
    (IF p.process # "null" THEN <<"kill">> ELSE <<>>)
    \o [i \in 1..Len(CleanupFiles) |-> "rm:" \o CleanupFiles[i]]

\* cleanup(): the process after this.process.kill('SIGTERM')
CleanupProxy(p) ==
    IF p.process # "null"
    THEN [p EXCEPT !.signalled = (p.process \in {"spawning", "running"}) \/ @]
    ELSE p

Proceeds_always(r) == TRUE
\* main: if (await proxy.downloadAndExtract())
Proceeds(r) == r = "true"

\* process.exit(0) in cleanupAndExit
SignalExitCode == 0
\* process.exit(1) in detectEnvironment
EnvExitCode == 1

-----------------------------------------------------------------------------
Init ==
    /\ \/ env \in BaseEnvs /\ fsys \in PriorDisks
       \/ env \in VariantEnvs /\ fsys = EmptyDisk
    /\ pc = "start"
    /\ host = "alive"
    /\ exitCode = -1
    /\ exitCause = "none"
    /\ handlers = 0
    /\ proxy = NoProxy
    /\ attempt = 0
    /\ source = 0
    /\ requests = 0
    /\ backoffs = 0
    /\ failed = 0
    /\ lastBody = NoBody
    /\ ispInfo = NoLabel
    /\ redirects = 0
    /\ url = "none"
    /\ config = NoConfig
    /\ entries = <<>>
    /\ provFailure = "none"
    /\ daeResult = "none"
    /\ cleanups = 0
    /\ unlinkErrors = {}
    /\ trace = <<>>

ispVars == <<attempt, source, requests, backoffs, failed, lastBody, ispInfo>>
dlVars == <<redirects, url, config, entries, provFailure, daeResult>>
hostVars == <<host, exitCode, exitCause>>
cleanVars == <<cleanups, unlinkErrors>>

\* the host process ends: process.exit(code), an uncaught exception, or the
\* event loop running out of work
Exit(code, cause, events) ==
    /\ host' = "exited"
    /\ exitCode' = code
    /\ exitCause' = cause
    /\ trace' = trace \o events \o <<"exit">>

-----------------------------------------------------------------------------
(* main, up to the first request of getISP *)

\* detectEnvironment when the hosting contract is absent
DetectEnvironmentFail ==
    /\ host = "alive" /\ pc = "start"
    /\ ~IsPterodactyl(env)
    /\ Exit(EnvExitCode, "env", <<"log:not detected">>)
    /\ UNCHANGED <<env, pc, handlers, proxy, fsys, ispVars, dlVars, cleanVars>>

\* detectEnvironment succeeds, the XrayProxy is constructed (which registers
\* the signal handlers) and getISP issues its first request
MainStart ==
    /\ host = "alive" /\ pc = "start"
    /\ IsPterodactyl(env)
    /\ \E u \in (IF env.UUID # "" THEN {env.UUID} ELSE RandomUUIDs) :
          proxy' = NewProxy(env, u)
    /\ handlers' = RegisterHandlers(handlers)
    /\ attempt' = 1
    /\ source' = SourceIndex(1)
    /\ requests' = requests + 1
    /\ pc' = "isp_wait"
    /\ trace' = trace \o <<"log:detected", "identity", "handlers", "get:isp">>
    /\ UNCHANGED <<env, hostVars, fsys, backoffs, failed, lastBody, ispInfo,
                   dlVars, cleanVars>>

-----------------------------------------------------------------------------
(* getISP (app.js 89-111) and the start of downloadAndExtract *)

\* getISP returns label; main calls downloadAndExtract, whose _downloadFile
\* issues the first download request
IspReturn(label, events) ==
    /\ ispInfo' = label
    /\ pc' = "dl_wait"
    /\ daeResult' = "pending"
    /\ url' = GetXrayDownloadUrl(env.arch)
    /\ trace' = trace \o events \o <<"isp:return", "get:zip">>
    /\ UNCHANGED <<redirects, config, entries, provFailure>>

\* 'end' of the response and the parser returns: resolve, return isp
IspResponseParsed ==
    /\ host = "alive" /\ pc = "isp_wait"
    /\ \E body \in BodiesOf(source) :
          /\ Parse(source, body).ok
          /\ lastBody' = body
          /\ IspReturn(Parse(source, body).label, <<"isp:ok">>)
    /\ UNCHANGED <<env, hostVars, handlers, proxy, fsys, attempt, source,
                   requests, backoffs, failed, cleanVars>>

\* 'end' of the response and the parser throws inside the 'end' listener:
\* the exception is outside the promise and the try, so it is uncaught
IspResponseThrows ==
    /\ host = "alive" /\ pc = "isp_wait"
    /\ \E body \in BodiesOf(source) :
          /\ ~Parse(source, body).ok
          /\ lastBody' = body
    /\ failed' = failed + 1
    /\ Exit(1, "uncaught", <<"isp:throw">>)
    /\ UNCHANGED <<env, pc, handlers, proxy, fsys, attempt, source, requests,
                   backoffs, ispInfo, dlVars, cleanVars>>

\* the request emits 'error' or 'timeout': reject, caught by the loop's catch
IspRequestFails ==
    /\ host = "alive" /\ pc = "isp_wait"
    /\ failed' = failed + 1
    /\ IF attempt = Retries
       THEN /\ IspReturn(sUnknown, <<"isp:fail">>)
            /\ UNCHANGED backoffs
       ELSE /\ pc' = "isp_backoff"
            /\ backoffs' = backoffs + 1
            /\ trace' = trace \o <<"isp:fail", "backoff">>
            /\ UNCHANGED <<ispInfo, dlVars>>
    /\ UNCHANGED <<env, hostVars, handlers, proxy, fsys, attempt, source,
                   requests, lastBody, cleanVars>>

\* the backoff timer fires: next iteration of the loop, next request
IspBackoffDone ==
    /\ host = "alive" /\ pc = "isp_backoff"
    /\ attempt' = attempt + 1
    /\ source' = SourceIndex(attempt + 1)
    /\ requests' = requests + 1
    /\ pc' = "isp_wait"
    /\ trace' = trace \o <<"get:isp">>
    /\ UNCHANGED <<env, hostVars, handlers, proxy, fsys, backoffs, failed,
                   lastBody, ispInfo, dlVars, cleanVars>>

-----------------------------------------------------------------------------
(* _downloadFile (app.js 153-161) and downloadAndExtract (app.js 119-151) *)

\* statuses and Location headers the download server answers with
Statuses == {200, 302, 404}

EntryNames == {"xray", "geoip.dat"}

\* the archives yauzl can open: every sequence of at most MaxEntries entries
Archives == UNION {[1..n -> EntryNames] : n \in 0..MaxEntries}

MainTail_spawnFirst(res, f, p, events) ==
    IF res = "true"
    THEN [fs |-> [f EXCEPT !.config = TRUE, !.links = TRUE],
          px |-> [p EXCEPT !.process = "spawning"],
          cf |-> ConfigOf(p),
          pc |-> "spawned",
          tr |-> events \o <<"spawn", "write:config.json", "write:links">>]
    ELSE [fs |-> f, px |-> p, cf |-> config, pc |-> "done",
          tr |-> events \o <<"main:return">>]
\* the rest of main once downloadAndExtract has settled with res:
\* generateConfig, displayInfo, startService
MainTail(res, f, p, events) ==
    IF Proceeds(res)
    THEN [fs |-> [f EXCEPT !.config = TRUE, !.links = TRUE],
          px |-> [p EXCEPT !.process = "spawning"],
          cf |-> ConfigOf(p),
          pc |-> "spawned",
          tr |-> events \o <<"write:config.json", "write:links", "spawn">>]
    ELSE [fs |-> f, px |-> p, cf |-> config, pc |-> "done",
          tr |-> events \o <<"main:return">>]

\* the promise of downloadAndExtract rejects: main rejects, and
\* main().catch(console.error) prints the error
DaeRejects(step, events) ==
    /\ provFailure' = IF provFailure = "none" THEN step ELSE provFailure
    /\ daeResult' = "rejected"
    /\ pc' = "rejected"
    /\ trace' = trace \o events \o <<"dae:reject", "main:catch">>

\* https.get emits 'error': _downloadFile rejects, the await throws into the
\* catch of downloadAndExtract, which returns false
DlRequestError ==
    /\ host = "alive" /\ pc = "dl_wait"
    /\ provFailure' = "net"
    /\ daeResult' = "false"
    /\ LET t == MainTail("false", fsys, proxy, <<"dl:error", "dae:false">>) IN
          /\ fsys' = t.fs
          /\ proxy' = t.px
          /\ config' = t.cf
          /\ pc' = t.pc
          /\ trace' = trace \o t.tr
    /\ url' = "none"
    /\ UNCHANGED <<env, hostVars, handlers, ispVars, redirects, entries, cleanVars>>

\* a response with status >= 300 and a Location header: _downloadFile calls
\* itself with the location, whatever the number of redirects followed so
\* far (the count and the trace stop growing at MaxRedirects)
DlRedirect ==
    /\ host = "alive" /\ pc = "dl_wait"
    /\ \E st \in Statuses, loc \in RedirectTargets :
          /\ st >= 300
          /\ url' = loc
    /\ redirects' = IF redirects < MaxRedirects THEN redirects + 1 ELSE redirects
    /\ trace' = IF redirects < MaxRedirects
                THEN trace \o <<"dl:redirect", "get:zip">>
                ELSE trace
    /\ UNCHANGED <<env, pc, hostVars, handlers, proxy, fsys, ispVars, config,
                   entries, provFailure, daeResult, cleanVars>>

\* any other response: createWriteStream(dest) and the body is piped into it
DlResponse ==
    /\ host = "alive" /\ pc = "dl_wait"
    /\ \E st \in Statuses, loc \in BOOLEAN :
          /\ ~(st >= 300 /\ loc)
          /\ provFailure' = IF st >= 300 THEN "http" ELSE provFailure
    /\ fsys' = [fsys EXCEPT !.zip = "partial"]
    /\ pc' = "dl_body"
    /\ url' = "none"
    /\ trace' = trace \o <<"create:xray.zip">>
    /\ UNCHANGED <<env, hostVars, handlers, proxy, ispVars, redirects, config, entries,
                   daeResult, cleanVars>>

\* 'finish' of the file: _downloadFile resolves and yauzl.open is called
DlFinish ==
    /\ host = "alive" /\ pc = "dl_body"
    /\ fsys' = [fsys EXCEPT !.zip = "complete"]
    /\ pc' = "zip_open"
    /\ trace' = trace \o <<"write:xray.zip", "yauzl.open">>
    /\ UNCHANGED <<env, hostVars, handlers, proxy, ispVars, dlVars, cleanVars>>

\* the response ends prematurely: no listener on the response, the file never
\* finishes, the promise of _downloadFile never settles
DlBodyAborted ==
    /\ host = "alive" /\ pc = "dl_body"
    /\ provFailure' = IF provFailure = "none" THEN "body" ELSE provFailure
    /\ pc' = "stalled"
    /\ trace' = trace \o <<"dl:aborted">>
    /\ UNCHANGED <<env, hostVars, handlers, proxy, fsys, ispVars, redirects, url, config,
                   entries, daeResult, cleanVars>>

\* the write stream emits 'error' (disk full): it has no 'error' listener
DlWriteError ==
    /\ host = "alive" /\ pc = "dl_body"
    /\ provFailure' = IF provFailure = "none" THEN "diskwrite" ELSE provFailure
    /\ Exit(1, "uncaught", <<"dl:write error">>)
    /\ UNCHANGED <<env, pc, handlers, proxy, fsys, ispVars, redirects, url, config, entries,
                   daeResult, cleanVars>>

\* yauzl.open calls back with an error: reject
ZipOpenError ==
    /\ host = "alive" /\ pc = "zip_open"
    /\ DaeRejects("open", <<"zip:open error">>)
    /\ UNCHANGED <<env, hostVars, handlers, proxy, fsys, ispVars, redirects, url, config,
                   entries, cleanVars>>

\* yauzl.open calls back with the zipfile: listener set, readEntry()
\* (the body of an HTTP error response is not an archive)
ZipOpened ==
    /\ host = "alive" /\ pc = "zip_open"
    /\ provFailure # "http"
    /\ entries' \in Archives
    /\ pc' = "zip_entry"
    /\ trace' = trace \o <<"zip:open">>
    /\ UNCHANGED <<env, hostVars, handlers, proxy, fsys, ispVars, redirects, url, config,
                   provFailure, daeResult, cleanVars>>

\* 'entry' with another name: readEntry()
ZipEntrySkipped ==
    /\ host = "alive" /\ pc = "zip_entry"
    /\ entries # <<>> /\ Head(entries) # "xray"
    /\ entries' = Tail(entries)
    /\ trace' = trace \o <<"zip:skip">>
    /\ UNCHANGED <<env, pc, hostVars, handlers, proxy, fsys, ispVars, redirects, url, config,
                   provFailure, daeResult, cleanVars>>

\* 'entry' named xray: openReadStream
ZipEntryFound ==
    /\ host = "alive" /\ pc = "zip_entry"
    /\ entries # <<>> /\ Head(entries) = "xray"
    /\ pc' = "zip_stream"
    /\ trace' = trace \o <<"zip:found">>
    /\ UNCHANGED <<env, hostVars, handlers, proxy, fsys, ispVars, dlVars, cleanVars>>

\* the archive ends ('end'): no listener, the promise never settles
ZipEnd ==
    /\ host = "alive" /\ pc = "zip_entry"
    /\ entries = <<>>
    /\ provFailure' = "noentry"
    /\ pc' = "stalled"
    /\ trace' = trace \o <<"zip:end">>
    /\ UNCHANGED <<env, hostVars, handlers, proxy, fsys, ispVars, redirects, url, config,
                   entries, daeResult, cleanVars>>

\* openReadStream calls back with an error: reject
ZipStreamError ==
    /\ host = "alive" /\ pc = "zip_stream"
    /\ DaeRejects("stream", <<"zip:stream error">>)
    /\ UNCHANGED <<env, hostVars, handlers, proxy, fsys, ispVars, redirects, url, config,
                   entries, cleanVars>>

\* openReadStream calls back with the stream: mkdirSync if needed,
\* createWriteStream(xrayPath) (truncating a file already there), pipeline
ZipStreamOpened ==
    /\ host = "alive" /\ pc = "zip_stream"
    /\ fsys' = [fsys EXCEPT !.dir = TRUE, !.xray = "partial"]
    /\ pc' = "zip_write"
    /\ trace' = trace \o <<"create:xray">>
    /\ UNCHANGED <<env, hostVars, handlers, proxy, ispVars, dlVars, cleanVars>>

\* pipeline rejects (read or write error): reject
PipelineError ==
    /\ host = "alive" /\ pc = "zip_write"
    /\ DaeRejects("pipe", <<"pipeline error">>)
    /\ UNCHANGED <<env, hostVars, handlers, proxy, fsys, ispVars, redirects, url, config,
                   entries, cleanVars>>

AfterPipeline_noChmod(f) == [f EXCEPT !.xray = "complete", !.zip = "absent"]
AfterPipeline_keepZip(f) == [f EXCEPT !.xray = "complete", !.xrayExec = TRUE]
\* the disk after the .then of pipeline: chmodSync 0o755, unlinkSync(zipPath)
AfterPipeline(f) ==
    [f EXCEPT !.xray = "complete", !.xrayExec = TRUE, !.zip = "absent"]

\* the observable steps from the end of pipeline to resolve(true)
AfterPipelineEvents == <<"write:xray", "chmod", "unlink:xray.zip", "dae:true">>

\* pipeline resolves: chmodSync, unlinkSync, resolve(true); main goes on
PipelineDone ==
    /\ host = "alive" /\ pc = "zip_write"
    /\ daeResult' = "true"
    /\ LET t == MainTail("true", AfterPipeline(fsys), proxy, AfterPipelineEvents) IN
          /\ fsys' = t.fs
          /\ proxy' = t.px
          /\ config' = t.cf
          /\ pc' = t.pc
          /\ trace' = trace \o t.tr
    /\ UNCHANGED <<env, hostVars, handlers, ispVars, redirects, url, entries,
                   provFailure, cleanVars>>

\* pipeline resolves but chmodSync or unlinkSync throws inside the .then:
\* the promise of the .then rejects, .catch(reject)
PipelineThenThrows ==
    /\ host = "alive" /\ pc = "zip_write"
    /\ \E step \in {"chmod", "unlink"} :
          /\ fsys' = [fsys EXCEPT !.xray = "complete",
                                  !.xrayExec = (step = "unlink") \/ @]
          /\ DaeRejects(step, <<"write:xray", step \o " error">>)
    /\ UNCHANGED <<env, hostVars, handlers, proxy, ispVars, redirects, url, config, entries,
                   cleanVars>>

-----------------------------------------------------------------------------
(* The engine, signals and the end of the host process *)

\* the child process started
SpawnOk ==
    /\ host = "alive" /\ pc = "spawned" /\ proxy.process = "spawning"
    /\ proxy' = [proxy EXCEPT !.process = "running"]
    /\ trace' = trace \o <<"child:running">>
    /\ UNCHANGED <<env, pc, hostVars, handlers, fsys, ispVars, dlVars, cleanVars>>

\* the child emits 'error' (the binary cannot be executed): no listener
SpawnError ==
    /\ host = "alive" /\ pc = "spawned" /\ proxy.process = "spawning"
    /\ proxy' = [proxy EXCEPT !.process = "exited"]
    /\ Exit(1, "uncaught", <<"child:error">>)
    /\ UNCHANGED <<env, pc, handlers, fsys, ispVars, dlVars, cleanVars>>

\* the engine ends by itself
EngineExit ==
    /\ host = "alive" /\ pc = "spawned" /\ proxy.process = "running"
    /\ proxy' = [proxy EXCEPT !.process = "exited"]
    /\ trace' = trace \o <<"child:exit">>
    /\ UNCHANGED <<env, pc, hostVars, handlers, fsys, ispVars, dlVars, cleanVars>>

\* where main or one of its callbacks waits for an event
SuspensionPoints == {"isp_wait", "isp_backoff", "dl_wait", "dl_body", "zip_open",
                     "zip_entry", "zip_stream", "zip_write", "spawned"}

\* SIGINT or SIGTERM with the listener registered: cleanupAndExit
Signal ==
    /\ host = "alive" /\ pc \in SuspensionPoints
    /\ handlers > 0
    /\ \E sig \in {"SIGINT", "SIGTERM"},
          fails \in SUBSET {CleanupFiles[i] : i \in 1..Len(CleanupFiles)} :
          /\ \A n \in fails : Exists(fsys, n)
          /\ fsys' = RemoveAll(fsys, CleanupFiles, fails)
          /\ unlinkErrors' = fails
          /\ Exit(SignalExitCode, "signal", <<sig>> \o CleanupEvents(proxy))
    /\ proxy' = CleanupProxy(proxy)
    /\ cleanups' = cleanups + 1
    /\ UNCHANGED <<env, pc, handlers, ispVars, dlVars>>

\* nothing keeps the event loop alive: main has returned or rejected, or it
\* waits on a promise nothing will settle, or the engine has ended
NormalExit ==
    /\ host = "alive"
    /\ \/ pc \in {"done", "rejected", "stalled"}
       \/ pc = "spawned" /\ proxy.process = "exited"
    /\ Exit(0, "drained", <<>>)
    /\ UNCHANGED <<env, pc, handlers, proxy, fsys, ispVars, dlVars, cleanVars>>

Next ==
    \/ DetectEnvironmentFail
    \/ MainStart
    \/ IspResponseParsed
    \/ IspResponseThrows
    \/ IspRequestFails
    \/ IspBackoffDone
    \/ DlRequestError
    \/ DlRedirect
    \/ DlResponse
    \/ DlFinish
    \/ DlBodyAborted
    \/ DlWriteError
    \/ ZipOpenError
    \/ ZipOpened
    \/ ZipEntrySkipped
    \/ ZipEntryFound
    \/ ZipEnd
    \/ ZipStreamError
    \/ ZipStreamOpened
    \/ PipelineError
    \/ PipelineDone
    \/ PipelineThenThrows
    \/ SpawnOk
    \/ SpawnError
    \/ EngineExit
    \/ Signal
    \/ NormalExit

Spec == Init /\ [][Next]_vars

\* a request of _downloadFile is answered: by an error, a redirect or a body
DownloadAnswered == DlRequestError \/ DlRedirect \/ DlResponse

\* the network answers every download request that stays pending
FairSpec == Spec /\ WF_vars(DownloadAnswered)

-----------------------------------------------------------------------------
(* Properties *)

Has(e) == \E i \in 1..Len(trace) : trace[i] = e

\* position of the first occurrence of e in the trace (0 when absent)
Pos(e) == IF Has(e) THEN CHOOSE i \in 1..Len(trace) :
                              trace[i] = e /\ \A j \in 1..(i-1) : trace[j] # e
          ELSE 0

\* every file of the cleanup list is gone, except those whose unlink threw
GeneratedFilesGone ==
    \A i \in 1..Len(CleanupFiles) :
        CleanupFiles[i] \notin unlinkErrors => ~Exists(fsys, CleanupFiles[i])

NetworkOrFileEvents ==
    {"get:isp", "get:zip", "create:xray.zip", "write:xray.zip", "yauzl.open",
     "create:xray", "write:xray", "chmod", "unlink:xray.zip",
     "write:config.json", "write:links", "spawn"}

\* C1: however the host process ends (a signal, or the event loop running
\* out of work after a provisioning failure, after main().catch, or after the
\* engine ended), cleanup has run exactly once, the engine child (if one was
\* spawned) got a kill, and none of the three generated files is left on disk.
C1_CleanupOnEveryTermination ==
    (host = "exited" /\ exitCause \in {"signal", "drained"}) =>
        /\ cleanups = 1
        /\ (proxy.process # "null" => Has("kill"))
        /\ GeneratedFilesGone

\* C2: a signal at a suspension point runs, in this order, the kill of the
\* child (if there is one), the removal of the three files and exit(0); and
\* the listeners are registered before the first network or file operation.
C2_SignalCleanupSequence ==
    /\ \A i \in 1..Len(trace) :
          trace[i] \in NetworkOrFileEvents =>
              \E j \in 1..(i-1) : trace[j] = "handlers"
    /\ (host = "alive" /\ pc \in SuspensionPoints) => ENABLED Signal
    /\ exitCause = "signal" =>
          LET n == Len(trace)
              k == IF proxy.process # "null" THEN 1 ELSE 0
          IN /\ exitCode = 0
             /\ cleanups = 1
             /\ n >= 5 + k
             /\ trace[n] = "exit"
             /\ trace[n-1] = "rm:vless_xray_links.txt"
             /\ trace[n-2] = "rm:config.json"
             /\ trace[n-3] = "rm:xray.zip"
             /\ (k = 1 => trace[n-4] = "kill")
             /\ trace[n-4-k] \in {"SIGINT", "SIGTERM"}
             /\ (proxy.process \in {"spawning", "running"} => proxy.signalled)
             /\ GeneratedFilesGone

\* a signal stopped the host while the engine was running and the files of
\* the run were on disk
C2_Witness ==
    /\ exitCause = "signal"
    /\ proxy.process = "running" /\ proxy.signalled
    /\ Has("write:config.json")
    /\ unlinkErrors = {}

\* C3: config.json, the subscription link and the engine exist only after
\* downloadAndExtract resolved true, and after a provisioning failure none of
\* generateConfig, displayInfo, startService has run.
C3_StartOnlyAfterProvisioning ==
    /\ (Has("write:config.json") \/ Has("write:links") \/ Has("spawn")
        \/ proxy.process # "null")
          => /\ daeResult = "true"
             /\ Pos("dae:true") < Pos("write:config.json")
             /\ Pos("dae:true") < Pos("write:links")
             /\ Pos("dae:true") < Pos("spawn")
    /\ (provFailure # "none" \/ daeResult \in {"false", "rejected"})
          => /\ ~Has("write:config.json")
             /\ ~Has("write:links")
             /\ ~Has("spawn")
             /\ proxy.process = "null"

\* the engine was spawned after a successful provisioning
C3_Witness ==
    /\ daeResult = "true" /\ Has("spawn") /\ proxy.process = "running"

\* a provisioning failure ended the run without any of the three steps
C3_WitnessFailure ==
    /\ provFailure = "net" /\ daeResult = "false" /\ host = "exited"

FailingSteps == {"net", "http", "body", "diskwrite", "open", "stream", "pipe"}

\* C4: for every failing provisioning step downloadAndExtract returns false:
\* it does not reject, does not end the process, does not stay pending.
C4_FailureReturnsFalse ==
    provFailure \in FailingSteps =>
        /\ daeResult # "rejected"
        /\ exitCause # "uncaught"
        /\ (host = "exited" /\ exitCause = "drained" => daeResult = "false")

\* C5: with an archive that has no entry named xray, downloadAndExtract has
\* reported failure by the time the run ends, and no executable file is at
\* xray/xray.
C5_MissingEntryReportsFailure ==
    (provFailure = "noentry" /\ host = "exited" /\ exitCause = "drained") =>
        /\ daeResult = "false"
        /\ ~(fsys.xray # "absent" /\ fsys.xrayExec)

\* C6: when the entry xray is found and no step fails, downloadAndExtract
\* resolves true; at that moment xray/xray is completely written and
\* executable and xray.zip is gone, the steps having run in the order
\* write completed, chmod, unlink of the archive, resolve(true).
C6_SuccessfulExtraction ==
    /\ daeResult = "true" =>
          /\ fsys.xray = "complete" /\ fsys.xrayExec /\ fsys.dir
          /\ fsys.zip = "absent"
          /\ Has("zip:found")
          /\ LET w == Pos("write:xray") IN
                /\ w > 0
                /\ Len(trace) >= w + 3
                /\ trace[w+1] = "chmod"
                /\ trace[w+2] = "unlink:xray.zip"
                /\ trace[w+3] = "dae:true"
    /\ (Has("zip:found") /\ provFailure = "none" /\ host = "exited"
        /\ exitCause # "signal") => daeResult = "true"

\* the moment resolve(true) was reached
C6_Witness ==
    /\ daeResult = "true" /\ pc = "spawned" /\ host = "alive"
    /\ fsys.xray = "complete" /\ fsys.xrayExec /\ fsys.zip = "absent"

\* C7: getISP never brings the process down: a failed attempt (network
\* error, timeout, throwing parser) is followed by the backoff or, when the
\* attempts are used up, by the return of "Unknown".
C7_GetIspNeverRaises ==
    /\ (requests > 0 /\ ispInfo = NoLabel) => exitCause # "uncaught"
    /\ failed = backoffs + (IF ispInfo = sUnknown THEN 1 ELSE 0)

\* C8: when all Retries attempts have failed, getISP has issued exactly
\* Retries requests, has waited Retries-1 times, and has returned "Unknown".
C8_ExhaustionReturnsUnknown ==
    failed = Retries =>
        /\ requests = Retries
        /\ backoffs = Retries - 1
        /\ ispInfo = sUnknown

\* C9: when attempt N+1 is the first to succeed, getISP returns the label
\* the source of index N mod 2 parses out of the response, which is not
\* "Unknown", and no request follows the successful one.
C9_FirstSuccessWins ==
    Has("isp:ok") =>
        /\ failed < Retries
        /\ attempt = failed + 1
        /\ requests = attempt
        /\ backoffs = failed
        /\ source = (attempt - 1) % 2
        /\ lastBody \in BodiesOf(source)
        /\ ispInfo = Parse(source, lastBody).label
        /\ ispInfo # sUnknown
        /\ ispInfo # NoLabel

\* two failures, then the third attempt (first source again) succeeds
C9_Witness ==
    /\ Has("isp:ok") /\ failed = 2 /\ source = 0
    /\ ispInfo = <<"U","S","-","A","_","B">>

\* SERVER_IP or SERVER_PORT is missing
HostContractMissing ==
    \/ env.SERVER_IP \in {UNSET, ""}
    \/ env.SERVER_PORT \in {UNSET, ""}

\* C10: with SERVER_IP or SERVER_PORT missing the process reports it and
\* exits with a non-zero status, having created no identity, registered no
\* handler, issued no request and written no file.
C10_MissingContractIsFatal ==
    HostContractMissing =>
        /\ ~proxy.created
        /\ handlers = 0
        /\ requests = 0
        /\ \A i \in 1..Len(trace) : trace[i] \notin NetworkOrFileEvents
        /\ \/ host = "alive" /\ trace = <<>> /\ ENABLED DetectEnvironmentFail
           \/ /\ host = "exited" /\ exitCode # 0 /\ exitCause = "env"
              /\ trace = <<"log:not detected", "exit">>
        /\ fsys \in PriorDisks

\* the run ended on the missing port
C10_Witness ==
    /\ env.SERVER_IP = "1.2.3.4" /\ env.SERVER_PORT = UNSET
    /\ host = "exited" /\ exitCode = 1

\* C11: every download ends: whatever redirects the server answers with,
\* _downloadFile stops following them and the request phase is left.
C11_DownloadTerminates ==
    (host = "alive" /\ pc = "dl_wait") ~> (pc # "dl_wait" \/ host = "exited")

\* C12: on an architecture other than arm64 and x64 no download is started
\* and no asset name of a supported architecture is requested.
C12_UnsupportedArchIsError ==
    env.arch \notin {"arm64", "x64"} =>
        /\ ~Has("get:zip")
        /\ url \notin {AssetArm64, Asset64}

\* C13: the stages run one after the other: every getISP request precedes
\* the return of getISP, which precedes the first download request;
\* config.json is written after the archive was written, the entry extracted,
\* chmod and unlink done and true resolved; the engine is spawned after
\* config.json and the link file were written.
C13_StagesInOrder ==
    /\ \A i \in 1..Len(trace) :
          /\ trace[i] = "get:zip" => Pos("isp:return") \in 1..(i-1)
          /\ trace[i] \in {"get:isp", "backoff", "isp:ok", "isp:fail"} =>
                (~Has("isp:return") \/ i < Pos("isp:return"))
          /\ trace[i] \in {"get:zip", "create:xray.zip", "write:xray.zip",
                           "yauzl.open", "zip:found", "create:xray",
                           "write:xray", "chmod", "unlink:xray.zip", "dae:true"} =>
                (~Has("write:config.json") \/ i < Pos("write:config.json"))
    /\ Has("write:config.json") =>
          \A e \in {"write:xray.zip", "zip:found", "write:xray", "chmod",
                    "unlink:xray.zip", "dae:true"} : Has(e)
    /\ Has("spawn") =>
          /\ 0 < Pos("write:config.json")
          /\ Pos("write:config.json") < Pos("write:links")
          /\ Pos("write:links") < Pos("spawn")

\* the engine runs after a lookup that needed a retry and a download that
\* was redirected
C13_Witness ==
    /\ proxy.process = "running" /\ failed = 1 /\ redirects = 1

\* C14: cleanup on a signal completes (the host exits with status 0) in
\* every state: without a process no kill is sent, and each of the three
\* files is visited and removed unless its own unlink threw.
C14_CleanupTotal ==
    exitCause = "signal" =>
        /\ cleanups = 1
        /\ exitCode = 0
        /\ (proxy.process = "null" <=> ~Has("kill"))
        /\ \A i \in 1..Len(CleanupFiles) :
              /\ Has("rm:" \o CleanupFiles[i])
              /\ Exists(fsys, CleanupFiles[i]) <=> CleanupFiles[i] \in unlinkErrors

\* no engine yet, config.json could not be removed, and the link file, later
\* in the list, was removed all the same
C14_Witness ==
    /\ exitCause = "signal" /\ proxy.process = "null"
    /\ unlinkErrors = {"config.json"}
    /\ Has("create:xray.zip") /\ fsys.zip = "absent"
    /\ fsys.config /\ ~fsys.links

\* the configuration written has one inbound with one client, whose id and
\* path are those of the identity
ConfigMatchesIdentity ==
    /\ Len(config.inbounds) = 1
    /\ Len(config.inbounds[1].clients) = 1
    /\ config.inbounds[1].clients[1].id = proxy.uuid
    /\ proxy.uuid \in (IF env.UUID # "" THEN {env.UUID} ELSE RandomUUIDs)
    /\ config.inbounds[1].wsPath = proxy.path

\* C15 as stated: the inbound port of the configuration written is the
\* number in SERVER_PORT.
C15_PortIsServerPort ==
    Has("write:config.json") =>
        /\ ConfigMatchesIdentity
        /\ config.inbounds[1].port = JsonNumber(ParseInt(TextOf(env.SERVER_PORT)))

\* C15 amended: the inbound port is the number read from PORT when PORT is
\* not empty (null when it holds no number), and from SERVER_PORT otherwise.
C15_PortIsFinalPort ==
    Has("write:config.json") =>
        /\ ConfigMatchesIdentity
        /\ env.PORT = <<>> =>
              config.inbounds[1].port = JsonNumber(ParseInt(TextOf(env.SERVER_PORT)))
        /\ env.PORT # <<>> =>
              config.inbounds[1].port = JsonNumber(ParseInt(env.PORT))
        /\ (env.PORT = <<>> /\ env.SERVER_PORT = "25565") =>
              config.inbounds[1].port = [null |-> FALSE, val |-> 25565]
        /\ env.PORT = <<"8","0","8","0">> =>
              config.inbounds[1].port = [null |-> FALSE, val |-> 8080]
        /\ env.PORT = <<"x">> => config.inbounds[1].port.null

\* config.json was written with the port of the PORT override
C15_Witness ==
    /\ Has("write:config.json") /\ env.PORT = <<"8","0","8","0">>
    /\ config.inbounds[1].port.val = 8080

HexChars == {"0","1","2","3","4","5","6","7","8","9","a","b","c","d","e","f"}

\* the path expected for each id when no WSPATH is given
DerivedPath(u) ==
    CASE u = "uuid-fixed" -> <<"/","f","1","d","8","4","3","5","0">>
      [] u = "uuid-r1" -> <<"/","5","d","c","1","4","0","d","6">>
      [] u = "uuid-r2" -> <<"/","3","c","a","7","e","5","1","4">>
      [] OTHER -> <<>>

\* C16: without WSPATH the access path is determined by the id alone and is
\* '/' followed by 8 hex characters; with WSPATH it still starts with '/'.
C16_AccessPathShape ==
    proxy.created =>
        /\ Len(proxy.path) >= 1 /\ proxy.path[1] = "/"
        /\ env.WSPATH = <<>> =>
              /\ Len(proxy.path) = 9
              /\ \A i \in 2..9 : proxy.path[i] \in HexChars
              /\ proxy.path = DerivedPath(proxy.uuid)
        /\ env.WSPATH # <<>> =>
              proxy.path \in {env.WSPATH, <<"/">> \o env.WSPATH}

\* a random id, no WSPATH
C16_Witness ==
    /\ proxy.created /\ env.WSPATH = <<>> /\ env.UUID = ""
    /\ proxy.uuid = "uuid-r1"

\* a WSPATH without the leading slash
C16_WitnessFixedPath ==
    /\ proxy.created /\ env.WSPATH = <<"w","s">>
    /\ proxy.path = <<"/","w","s">>

\* C17: once cleanup has run, the binary extracted by this run is no longer
\* at xray/xray.
C17_BinaryDeletedByCleanup ==
    (cleanups > 0 /\ Has("write:xray")) => fsys.xray = "absent"

\* C18: when the run ends after the write of xray/xray began and
\* downloadAndExtract did not succeed, no partially written file is there.
C18_NoPartialBinary ==
    (host = "exited" /\ Has("create:xray") /\ daeResult # "true") =>
        fsys.xray # "partial"

\* C19: the listeners are registered once and cleanup runs at most once: it
\* has run exactly when a signal ended the process, and no signal is handled
\* after that.
C19_CleanupAtMostOnce ==
    /\ handlers <= 1
    /\ proxy.created => handlers = 1
    /\ cleanups <= 1
    /\ cleanups = 1 <=> exitCause = "signal"
    /\ cleanups = 1 => host = "exited"
    /\ host = "exited" => ~ENABLED Signal
    /\ Cardinality({i \in 1..Len(trace) : trace[i] \in {"SIGINT", "SIGTERM"}}) <= 1

\* a signal ended the run while the engine was running
C19_Witness ==
    /\ cleanups = 1 /\ host = "exited" /\ Has("SIGTERM")
    /\ proxy.process = "running"

\* C20: every run that gets past getISP requests the archive, whatever is
\* at xray/xray; the engine is spawned at most once, from a file written
\* and made executable in this run.
C20_AlwaysReprovision ==
    /\ ispInfo # NoLabel => Has("get:zip")
    /\ proxy.process # "null" => Has("spawn")
    /\ Has("spawn") =>
          /\ Cardinality({i \in 1..Len(trace) : trace[i] = "spawn"}) = 1
          /\ 0 < Pos("create:xray")
          /\ Pos("create:xray") < Pos("write:xray")
          /\ Pos("write:xray") < Pos("chmod")
          /\ Pos("chmod") < Pos("spawn")
          /\ fsys.xray = "complete" /\ fsys.xrayExec

\* the archive is requested although an executable file is at xray/xray
C20_Witness ==
    /\ pc = "dl_wait" /\ Has("get:zip")
    /\ fsys.xray = "complete" /\ fsys.xrayExec

\* the engine was spawned in a run that found the files of an earlier run
C20_WitnessSpawn ==
    /\ Has("spawn") /\ proxy.process = "running"
    /\ Has("write:xray") /\ Has("chmod")

====
